---------------------------- MODULE Spec2Model ----------------------------
(***************************************************************************)
(* A model of verbose.style/linux: the error taxonomy engine (errors.go),  *)
(* the system call facade built by Native() (api_linux.go), the File       *)
(* handle (file.go) and the mapped-memory object (api_linux.go).           *)
(*                                                                         *)
(* Five specifications share the variables:                                *)
(*   Spec      the facade operations, the error taxonomy engine and the    *)
(*             layout test of the ABI records;                             *)
(*   SpecFile  one File handle, used and closed by several goroutines;     *)
(*   SpecCopy  one File value and a copy of it, closed by several          *)
(*             goroutines;                                                 *)
(*   SpecMap   one mapped-memory object;                                   *)
(*   SpecOpen  Open with every combination of a few flags.                 *)
(***************************************************************************)
EXTENDS Integers, Sequences, FiniteSets, TLC

VARIABLES
    last,       \* the outcome of the latest facade / taxonomy call
    Closed,     \* File.Closed (atomic.Bool)
    fdOpen,     \* whether the kernel holds File.Descriptor open
    reopened,   \* whether a later open was given File.Descriptor's number
    kclose,     \* kernel close(2) calls issued for File.Descriptor, in order
    pc,         \* per goroutine: position inside File.Close
    ret,        \* per goroutine: what its latest File.Close returned
    calls,      \* per goroutine: File.Close calls started
    fcopy,      \* a copy of the File value: whether made, and its Closed
    m,          \* the mmap object: check (protection) and slice (region)
    mres        \* the outcome of the latest call on the mmap object

vars == <<last, Closed, fdOpen, reopened, kclose, pc, ret, calls, fcopy, m,
          mres>>

fileVars == <<Closed, fdOpen, reopened, kclose, pc, ret, calls, fcopy>>
mapVars == <<m, mres>>

-----------------------------------------------------------------------------
(* Bounds of the model.                                                    *)

MaxBuf == 2         \* longest caller buffer
MaxLen == 2         \* longest mapped region
MaxCalls == 2       \* File.Close calls per goroutine
MaxFiles == 2       \* longest list handed to Poll
MaxFlags == 2       \* most flags of one category named in an Open
NumThreads == 3     \* goroutines sharing the File handle

Threads == 1..NumThreads

-----------------------------------------------------------------------------
(* Error values.  A Go error is nil, a syscall.Errno, some other error     *)
(* carrying a message, or a variant of one operation's table.              *)

Nil == [kind |-> "nil", op |-> "", ord |-> 0, no |-> 0, msg |-> ""]
Errno(e) == [kind |-> "errno", op |-> "", ord |-> 0, no |-> e, msg |-> ""]
Other(s) == [kind |-> "other", op |-> "", ord |-> 0, no |-> 0, msg |-> s]
Variant(T, i) == [kind |-> "variant", op |-> T, ord |-> i, no |-> 0, msg |-> ""]

(* syscall.Errno.Error(): the message of a Linux errno; an errno without   *)
(* an entry in the table, 0 included, prints as "errno <n>".               *)
ErrnoError(e) ==
    CASE e = 1 -> "operation not permitted"
      [] e = 2 -> "no such file or directory"
      [] e = 4 -> "interrupted system call"
      [] e = 5 -> "input/output error"
      [] e = 6 -> "no such device or address"
      [] e = 9 -> "bad file descriptor"
      [] e = 11 -> "resource temporarily unavailable"
      [] e = 12 -> "cannot allocate memory"
      [] e = 13 -> "permission denied"
      [] e = 14 -> "bad address"
      [] e = 16 -> "device or resource busy"
      [] e = 17 -> "file exists"
      [] e = 19 -> "no such device"
      [] e = 20 -> "not a directory"
      [] e = 21 -> "is a directory"
      [] e = 22 -> "invalid argument"
      [] e = 24 -> "too many open files"
      [] e = 26 -> "text file busy"
      [] e = 27 -> "file too large"
      [] e = 28 -> "no space left on device"
      [] e = 29 -> "illegal seek"
      [] e = 30 -> "read-only file system"
      [] e = 32 -> "broken pipe"
      [] e = 36 -> "file name too long"
      [] e = 40 -> "too many levels of symbolic links"
      [] e = 75 -> "value too large for defined data type"
      [] e = 89 -> "destination address required"
      [] e = 122 -> "disk quota exceeded"
      [] OTHER -> "errno " \o ToString(e)

(* The errnos the kernel may fail a call with.                             *)
Errnos == {1, 2, 4, 5, 6, 9, 11, 12, 13, 14, 16, 17, 19, 20, 21, 22, 24, 26,
           27, 28, 29, 30, 32, 36, 40, 75, 89, 122}

F(name, tag) == [name |-> name, tag |-> tag]

(* The declarative tables: the fields of each Error[T] struct, in order.   *)
ReadError ==
    << F("WouldBlock", "resource temporarily unavailable"),
       F("BadFile", "bad file descriptor"),
       F("Fault", "bad address"),
       F("Interrupted", "interrupted system call"),
       F("Invalid", "invalid argument"),
       F("IO", "I/O error"),
       F("Directory", "is a directory") >>

WriteError ==
    << F("WouldBlock", "resource temporarily unavailable"),
       F("BadFile", "bad file descriptor"),
       F("NoDestination", "destination address required"),
       F("QuotaExhausted", "disk quota exceeded"),
       F("Fault", "bad address"),
       F("TooMuch", "file too large"),
       F("Interrupted", "interrupted system call"),
       F("Invalid", "invalid argument"),
       F("IO", "I/O error"),
       F("NoMoreSpace", "no space left on device"),
       F("NotPermitted", "operation not permitted"),
       F("BrokenPipe", "broken pipe") >>

OpenError ==
    << F("AccessDenied", "permission denied"),
       F("BadFile", "bad file descriptor"),
       F("Busy", "device or resource busy"),
       F("QuotaExhausted", "disk quota exceeded"),
       F("AlreadyExists", "file exists"),
       F("Fault", "bad address"),
       F("FileTooLarge", "file too large"),
       F("NotPermitted", "operation not permitted"),
       F("ReadOnly", "read-only file system"),
       F("FileInUse", "file in use"),
       F("WouldBlock", "resource temporarily unavailable") >>

CloseError ==
    << F("BadFile", "bad file descriptor"),
       F("Interrupted", "interrupted system call"),
       F("IO", "I/O error"),
       F("QuotaExhausted", "disk quota exceeded"),
       F("NoMoreSpace", "no space left on device") >>

StatError ==
    << F("DoesNotExist", "no such file or directory"),
       F("AccessDenied", "permission denied"),
       F("BadFile", "bad file descriptor"),
       F("Fault", "bad address"),
       F("Invalid", "invalid argument"),
       F("Loop", "too many levels of symbolic links"),
       F("NameTooLong", "file name too long"),
       F("OutOfMemory", "cannot allocate memory"),
       F("NotDirectory", "not a directory"),
       F("StatFileTooLarge", "value too large for defined data type") >>

PollError ==
    << F("Fault", "bad address"),
       F("Interrupted", "interrupted system call"),
       F("Invalid", "invalid argument"),
       F("OutOfMemory", "cannot allocate memory") >>

SeekError ==
    << F("BadFile", "bad file descriptor"),
       F("Invalid", "invalid argument"),
       F("NotFound", "no such device or address"),
       F("Overflow", "value too large for defined data type"),
       F("Illegal", "illegal seek") >>

MapError ==
    << F("AccessDenied", "permission denied"),
       F("Locked", "resource temporarily unavailable"),
       F("BadFile", "bad file descriptor"),
       F("AlreadyExists", "file exists"),
       F("Invalid", "invalid argument"),
       F("TooManyFiles", "too many open files"),
       F("Unsupported", "no such device"),
       F("OutOfMemory", "cannot allocate memory"),
       F("Overflow", "value too large for defined data type"),
       F("NotPermitted", "operation not permitted") >>

(* Mutant: a table declaring one message for two variants.                 *)
ProtectMemoryErrorRepeated ==
    << F("AccessDenied", "permission denied"),
       F("Invalid", "permission denied"),
       F("OutOfMemory", "cannot allocate memory") >>

ProtectMemoryError ==
    << F("AccessDenied", "permission denied"),
       F("Invalid", "invalid argument"),
       F("OutOfMemory", "cannot allocate memory") >>

HeapError ==
    << F("OutOfMemory", "cannot allocate memory") >>

Tables == {"ReadError", "WriteError", "OpenError", "CloseError", "StatError",
           "PollError", "SeekError", "MapError", "ProtectMemoryError",
           "HeapError"}

(* reflect.TypeFor[T](): the fields of the table named T.                  *)
TypeFor(T) ==
    CASE T = "ReadError" -> ReadError
      [] T = "WriteError" -> WriteError
      [] T = "OpenError" -> OpenError
      [] T = "CloseError" -> CloseError
      [] T = "StatError" -> StatError
      [] T = "PollError" -> PollError
      [] T = "SeekError" -> SeekError
      [] T = "MapError" -> MapError
      [] T = "ProtectMemoryError" -> ProtectMemoryError
      [] T = "HeapError" -> HeapError

NumField(T) == Len(TypeFor(T))

(* rtype.Field(i), i counted from 0 as in the source.                      *)
Field(T, i) == TypeFor(T)[i + 1]

(* ErrMethods[T].Error(): the tag of field n, the field's name if the tag  *)
(* is empty.                                                               *)
Error(T, n) ==
    IF Field(T, n).tag # "" THEN Field(T, n).tag ELSE Field(T, n).name

(* err.Error() of any error value handed to parse.                         *)
ErrorOf(err) ==
    CASE err.kind = "errno" -> ErrnoError(err.no)
      [] err.kind = "variant" -> Error(err.op, err.ord)
      [] err.kind = "other" -> err.msg
      [] OTHER -> ""

Min(S) == CHOOSE x \in S : \A y \in S : x <= y

(* ErrMethods[T].parse: nil for nil; else the first field, in declaration  *)
(* order, whose tag is the error's message, with its index as ordinal;     *)
(* else the error itself.                                                  *)
parseFirstField(T, err) ==
    IF err = Nil THEN Nil
    ELSE LET msg == ErrorOf(err)
             hit == {i \in 0..(NumField(T) - 1) : Field(T, i).tag = msg}
         IN  IF hit # {} THEN Variant(T, Min(hit)) ELSE err

(* Mutants of parse: the ordinal is never stored; an unmatched error is    *)
(* replaced by the table's last variant.                                   *)
parseNoOrdinal(T, err) ==
    IF parseFirstField(T, err).kind = "variant" /\ err.kind # "variant"
    THEN Variant(T, 0) ELSE parseFirstField(T, err)

parseSwallow(T, err) ==
    IF err # Nil /\ parseFirstField(T, err) = err /\ err.kind # "variant"
    THEN Variant(T, NumField(T) - 1) ELSE parseFirstField(T, err)

parse(T, err) == parseFirstField(T, err)

(* ErrMethods[T].Types(): one variant per field, field i holding i.        *)
TypesByIndex(T) == [i \in 1..NumField(T) |-> Variant(T, i - 1)]

TypesAllZero(T) == [i \in 1..NumField(T) |-> Variant(T, 0)]

Types(T) == TypesByIndex(T)

(* Selecting a field of the struct Types() returns, by its name.           *)
FieldIndex(T, name) ==
    CHOOSE i \in 0..(NumField(T) - 1) : Field(T, i).name = name

Select(T, types, name) == types[FieldIndex(T, name) + 1]

-----------------------------------------------------------------------------
(* The kernel boundary.  A raw system call returns a machine word r1 and   *)
(* an errno; a failed call returns r1 = ^uintptr(0) and errno # 0.  The    *)
(* machine word is modelled WordBits wide.                                 *)

WordBits == 8

Pow2(n) == 2 ^ n

MaxUintptr == Pow2(WordBits) - 1

(* int64(x) / Bytes(x) of a uintptr x: the same bits read as signed.       *)
ToSigned(x) == IF x >= Pow2(WordBits - 1) THEN x - Pow2(WordBits) ELSE x

KOk(vals) == {[r1 |-> v, errno |-> 0] : v \in vals}

KFail == {[r1 |-> MaxUintptr, errno |-> e] : e \in Errnos}

(* The error a syscall package wrapper (syscall.Open, Close, Stat, Seek,   *)
(* Mmap, ...) returns: nil unless the errno is set.                        *)
errnoErr(e) == IF e = 0 THEN Nil ELSE Errno(e)

(* A syscall.Errno converted to the error interface, as when the errno     *)
(* returned by syscall.Syscall is handed to parse(err error): the          *)
(* interface holds the value and is never nil, errno 0 included.           *)
ErrnoAsError(e) == Errno(e)

-----------------------------------------------------------------------------
(* The facade built by Native().  Each operator takes the call's inputs    *)
(* and the outcome k of its kernel call and yields what the call returns.  *)

NoVal == <<>>

Result(n, err, T, raw, k, val) ==
    [n |-> n, err |-> err, aborted |-> FALSE, kcalls |-> 1, T |-> T,
     raw |-> raw, kerrno |-> k.errno, val |-> val]

(* A run-time panic after kc kernel calls.                                 *)
Panic(kc, kerrno) ==
    [n |-> 0, err |-> Nil, aborted |-> TRUE, kcalls |-> kc, T |-> "",
     raw |-> Nil, kerrno |-> kerrno, val |-> NoVal]

(* A return that never reached the kernel.                                 *)
Early(n, err, val) ==
    [n |-> n, err |-> err, aborted |-> FALSE, kcalls |-> 0, T |-> "",
     raw |-> Nil, kerrno |-> 0, val |-> val]

(* Mutant: Read issuing the system call again after "interrupted system    *)
(* call" or "resource temporarily unavailable", the second call filling    *)
(* the buffer.                                                             *)
ReadRetries(f, buf, k) ==
    IF Len(buf) = 0 THEN Panic(0, 0)
    ELSE IF k.errno \in {4, 11}
    THEN [Result(Len(buf), parse("ReadError", ErrnoAsError(0)),
                 "ReadError", ErrnoAsError(0), k, NoVal) EXCEPT !.kcalls = 2]
    ELSE Result(ToSigned(k.r1), parse("ReadError", ErrnoAsError(k.errno)),
                "ReadError", ErrnoAsError(k.errno), k, NoVal)

Read(f, buf, k) ==
    IF Len(buf) = 0 THEN Panic(0, 0)        \* &buf[0]: index out of range
    ELSE Result(ToSigned(k.r1), parse("ReadError", ErrnoAsError(k.errno)),
                "ReadError", ErrnoAsError(k.errno), k, NoVal)

Write(f, buf, k) ==
    IF Len(buf) = 0 THEN Panic(0, 0)        \* &buf[0]: index out of range
    ELSE Result(ToSigned(k.r1), parse("WriteError", ErrnoAsError(k.errno)),
                "WriteError", ErrnoAsError(k.errno), k, NoVal)

(* The flag constants, by name.  Two declarations are in the source: the   *)
(* one of file.go, written with the constants of package syscall and two   *)
(* octal literals, and the one of unnamed/part_000, written in hex.        *)
FileCreationFlags ==
    [FileCloseOnExecute   |-> 524288,       \* 0x80000
     FileCreateIfNeeded   |-> 64,           \* 0x40
     FileAssertDirectory  |-> 65536,        \* 0x10000
     FileAssertCreation   |-> 128,          \* 0x80
     FileIsNotTheTerminal |-> 256,          \* 0x100
     FileTrapSymbolicLink |-> 131072,       \* 0x20000
     FileTemporaryInside  |-> 4259840,      \* 0x410000
     FileTruncatedToZero  |-> 512]          \* 0x200

FileCreationFlags_file_go ==
    [FileCloseOnExecute   |-> 524288,       \* syscall.O_CLOEXEC
     FileCreateIfNeeded   |-> 64,           \* syscall.O_CREAT
     FileAssertDirectory  |-> 65536,        \* syscall.O_DIRECTORY
     FileAssertCreation   |-> 128,          \* syscall.O_EXCL
     FileIsNotTheTerminal |-> 256,          \* syscall.O_NOCTTY
     FileTrapSymbolicLink |-> 131072,       \* syscall.O_NOFOLLOW
     FileTemporaryInside  |-> 4194304,      \* 020000000
     FileTruncatedToZero  |-> 512]          \* syscall.O_TRUNC

FileStatusFlags ==
    [FileAppend                |-> 1024,    \* 0x400
     FileAsync                 |-> 8192,    \* 0x2000
     FileDirect                |-> 16384,   \* 0x4000
     FileSyncData              |-> 4096,    \* 0x1000
     FileDoNotUpdateAccessTime |-> 262144,  \* 0x40000
     FileNonBlocking           |-> 2048,    \* 0x800
     FilePath                  |-> 2097152, \* 0x200000
     FileSync                  |-> 1052672] \* 0x101000

FileStatusFlags_file_go ==
    [FileAppend                |-> 1024,    \* syscall.O_APPEND
     FileAsync                 |-> 8192,    \* syscall.O_ASYNC
     FileDirect                |-> 16384,   \* syscall.O_DIRECT
     FileSyncData              |-> 4096,    \* syscall.O_DSYNC
     FileSize64                |-> 0,       \* syscall.O_LARGEFILE
     FileDoNotUpdateAccessTime |-> 262144,  \* syscall.O_NOATIME
     FileNonBlocking           |-> 2048,    \* syscall.O_NONBLOCK
     FilePath                  |-> 2097152, \* 010000000
     FileSync                  |-> 1052672] \* syscall.O_SYNC

FileAccessMode ==
    [FileAccessReadOnly  |-> 0,             \* syscall.O_RDONLY
     FileAccessWriteOnly |-> 1,             \* syscall.O_WRONLY
     FileAccessReadWrite |-> 2]             \* syscall.O_RDWR

Declarations == {"file.go", "part_000"}

CreationFlagsOf(decl) ==
    IF decl = "file.go" THEN FileCreationFlags_file_go ELSE FileCreationFlags

StatusFlagsOf(decl) ==
    IF decl = "file.go" THEN FileStatusFlags_file_go ELSE FileStatusFlags

(* The Linux constants the conformance test pairs the names with.          *)
NativeFlags ==
    [FileCloseOnExecute        |-> 524288,  \* O_CLOEXEC
     FileCreateIfNeeded        |-> 64,      \* O_CREAT
     FileAssertDirectory       |-> 65536,   \* O_DIRECTORY
     FileAssertCreation        |-> 128,     \* O_EXCL
     FileIsNotTheTerminal      |-> 256,     \* O_NOCTTY
     FileTrapSymbolicLink      |-> 131072,  \* O_NOFOLLOW
     FileTemporaryInside       |-> 4259840, \* O_TMPFILE
     FileTruncatedToZero       |-> 512,     \* O_TRUNC
     FileAppend                |-> 1024,    \* O_APPEND
     FileAsync                 |-> 8192,    \* FASYNC
     FileDirect                |-> 16384,   \* O_DIRECT
     FileSyncData              |-> 4096,    \* O_DSYNC
     FileDoNotUpdateAccessTime |-> 262144,  \* O_NOATIME
     FileNonBlocking           |-> 2048,    \* O_NONBLOCK
     FilePath                  |-> 2097152, \* O_PATH
     FileSync                  |-> 1052672, \* O_SYNC
     FileAccessReadOnly        |-> 0,       \* O_RDONLY
     FileAccessWriteOnly       |-> 1,       \* O_WRONLY
     FileAccessReadWrite       |-> 2]       \* O_RDWR

RECURSIVE BitOr(_, _)
(* a | b on non-negative integers.                                         *)
BitOr(a, b) ==
    IF a = 0 THEN b
    ELSE IF b = 0 THEN a
    ELSE (IF a % 2 = 1 \/ b % 2 = 1 THEN 1 ELSE 0)
             + 2 * BitOr(a \div 2, b \div 2)

RECURSIVE OrAll(_, _)
(* The flags of names, taken from table, combined with |.                  *)
OrAll(table, names) ==
    IF names = {} THEN 0
    ELSE LET f == CHOOSE x \in names : TRUE
         IN BitOr(table[f], OrAll(table, names \ {f}))

(* Mutant: the flags word built without the status flags.                  *)
OpenWithoutStatus(path, access, creation, status, perm, k) ==
    [n |-> ToSigned(k.r1), err |-> parse("OpenError", errnoErr(k.errno)),
     aborted |-> FALSE, kcalls |-> 1, T |-> "OpenError",
     raw |-> errnoErr(k.errno), kerrno |-> k.errno,
     val |-> [flags |-> BitOr(access, creation)]]

(* Open returns File{Linux: os, Descriptor: FileDescriptor(fd)}; the       *)
(* descriptor is carried in n, and val holds the flags word the kernel     *)
(* received: int(access)|int(creation)|int(status).                        *)
Open(path, access, creation, status, perm, k) ==
    Result(ToSigned(k.r1), parse("OpenError", errnoErr(k.errno)),
           "OpenError", errnoErr(k.errno), k,
           [flags |-> BitOr(BitOr(access, creation), status)])

(* Close asserts the dynamic type of the error syscall.Close returned:     *)
(* err.(syscall.Errno) panics when err is nil.                             *)
Close(f, k) ==
    IF errnoErr(k.errno) = Nil THEN Panic(1, k.errno)
    ELSE Result(0, parse("CloseError", errnoErr(k.errno)),
                "CloseError", errnoErr(k.errno), k, NoVal)

(* The files the stat calls run against: a regular file and a symbolic     *)
(* link to it.  Target is the path a symbolic link holds, "" otherwise.    *)
FileSystem ==
    ("./api_test.go" :> [IndexNode |-> 1, Size |-> MaxLen, Target |-> ""])
    @@ ("./link" :> [IndexNode |-> 2, Size |-> 13, Target |-> "./api_test.go"])

(* The FileHeader the kernel fills in for a node.                          *)
Header(node) ==
    [IndexNode |-> node.IndexNode, Size |-> node.Size,
     Type |-> IF node.Target = "" THEN "regular" ELSE "symlink"]

(* var header FileHeader: the zero value, which a failed call leaves.      *)
ZeroHeader == [IndexNode |-> 0, Size |-> 0, Type |-> ""]

KStatFail ==
    {[r1 |-> MaxUintptr, errno |-> e, header |-> ZeroHeader] : e \in Errnos}

(* stat(2) (follow) and lstat(2) (do not follow) on a path: the kernel     *)
(* resolves the path and, when asked to follow, a symbolic link at its     *)
(* end.                                                                    *)
KLookup(path, follow) ==
    IF path \notin DOMAIN FileSystem
    THEN [r1 |-> MaxUintptr, errno |-> 2, header |-> ZeroHeader]
    ELSE LET node == FileSystem[path]
             final == IF follow /\ node.Target # ""
                      THEN FileSystem[node.Target] ELSE node
         IN [r1 |-> 0, errno |-> 0, header |-> Header(final)]

(* fstat(2): the file the descriptor refers to.                            *)
KFstat(fd) ==
    [r1 |-> 0, errno |-> 0, header |-> Header(FileSystem["./api_test.go"])]

(* What the kernel would answer to each of the three calls: the files as   *)
(* they are, or a failure (permissions, memory, ...).                      *)
KStatWorlds(path, fd) ==
    {[stat |-> KLookup(path, TRUE), lstat |-> KLookup(path, FALSE),
      fstat |-> KFstat(fd)]}
    \cup {[stat |-> f, lstat |-> f, fstat |-> f] : f \in KStatFail}

(* Mutant: Stat handing the raw error back without classifying it.         *)
StatRaw(path, K) ==
    Result(0, errnoErr(K.stat.errno), "StatError", errnoErr(K.stat.errno),
           K.stat, K.stat.header)

(* Stat: syscall.Stat.  val is the header returned.                        *)
Stat(path, K) ==
    Result(0, parse("StatError", errnoErr(K.stat.errno)),
           "StatError", errnoErr(K.stat.errno), K.stat, K.stat.header)

(* StatFile: syscall.Fstat.                                                *)
StatFile(fd, K) ==
    Result(0, parse("StatError", errnoErr(K.fstat.errno)),
           "StatError", errnoErr(K.fstat.errno), K.fstat, K.fstat.header)

(* Mutant: StatLink through the call that follows links.                   *)
StatLinkFollows(name, K) ==
    Result(0, parse("StatError", errnoErr(K.stat.errno)),
           "StatError", errnoErr(K.stat.errno), K.stat, K.stat.header)

(* StatLink: syscall.Lstat.                                                *)
StatLink(name, K) ==
    Result(0, parse("StatError", errnoErr(K.lstat.errno)),
           "StatError", errnoErr(K.lstat.errno), K.lstat, K.lstat.header)

HasReadAvailable == 1

FileToPoll(fd, notify, result) ==
    [File |-> fd, Notify |-> notify, Result |-> result]

(* time.Millisecond: a time.Duration counts nanoseconds.                   *)
Millisecond == 1000000

(* The entries poll(2) reported an event for.                              *)
Ready(revents) == {i \in DOMAIN revents : revents[i] # 0}

(* poll(2) on the entries of files: on success the kernel writes the       *)
(* observed events of every entry and returns the number of entries whose  *)
(* events are not 0 (0 when the timeout expired); on failure it returns -1 *)
(* and writes nothing.                                                     *)
KPoll(files) ==
    {[r1 |-> Cardinality(Ready(rv)), errno |-> 0, revents |-> rv] :
        rv \in [DOMAIN files -> {0, HasReadAvailable}]}
    \cup {[r1 |-> MaxUintptr, errno |-> e,
           revents |-> [i \in DOMAIN files |-> files[i].Result]] : e \in Errnos}

(* uintptr(timeout): the Duration's nanosecond count, handed over as it    *)
(* is.  The kernel reads the argument as a C int, which gives the same     *)
(* number back for every duration within 32 bits.                          *)
TimeoutArg(timeout) == timeout

(* Poll: an empty list returns before the kernel is reached.  val holds    *)
(* the caller's entries after the call and the timeout argument the kernel *)
(* received.                                                               *)
Poll(files, timeout, k) ==
    IF Len(files) = 0
    THEN Early(0, Select("PollError", Types("PollError"), "Fault"), NoVal)
    ELSE Result(ToSigned(k.r1), parse("PollError", ErrnoAsError(k.errno)),
                "PollError", ErrnoAsError(k.errno), k,
                [files |-> [i \in DOMAIN files |->
                               FileToPoll(files[i].File, files[i].Notify,
                                          k.revents[i])],
                 timeout |-> TimeoutArg(timeout)])

SeekRelativeToStart == 0
SeekRelative == 1
SeekRelativeToEnd == 1
SeekHole == 2
SeekData == 3

SeekOrigins == {"SeekRelativeToStart", "SeekRelative", "SeekRelativeToEnd",
                "SeekHole", "SeekData"}

SeekWhence(origin) ==
    CASE origin = "SeekRelativeToStart" -> SeekRelativeToStart
      [] origin = "SeekRelative" -> SeekRelative
      [] origin = "SeekRelativeToEnd" -> SeekRelativeToEnd
      [] origin = "SeekHole" -> SeekHole
      [] origin = "SeekData" -> SeekData

(* The kernel's origins, which the conformance test pairs with the         *)
(* constants above.                                                        *)
SEEK_SET == 0
SEEK_CUR == 1
SEEK_END == 2
SEEK_DATA == 3
SEEK_HOLE == 4

NativeWhence(origin) ==
    CASE origin = "SeekRelativeToStart" -> SEEK_SET
      [] origin = "SeekRelative" -> SEEK_CUR
      [] origin = "SeekRelativeToEnd" -> SEEK_END
      [] origin = "SeekHole" -> SEEK_HOLE
      [] origin = "SeekData" -> SEEK_DATA

(* Seek passes int(whence) on; val holds the origin the kernel received.   *)
Seek(fd, offset, whence, k) ==
    Result(ToSigned(k.r1), parse("SeekError", errnoErr(k.errno)),
           "SeekError", errnoErr(k.errno), k, [whence |-> whence])

-----------------------------------------------------------------------------
(* The ABI records and the layout conformance test.  A type is a scalar    *)
(* of a kind and a bit width, an array of scalars, or a struct of fields.  *)

Scalar(kind, bits) == [kind |-> kind, bits |-> bits, len |-> 0, fields |-> <<>>]

ArrayOf(len, kind, bits) ==
    [kind |-> "Array", bits |-> bits, len |-> len, fields |-> <<>>]

Struct(fields) == [kind |-> "Struct", bits |-> 0, len |-> 0, fields |-> fields]

(* structs.HostLayout: a marker field of size zero.                        *)
HostLayout == Struct(<<>>)

Max(a, b) == IF a >= b THEN a ELSE b

RoundUp(n, a) == ((n + a - 1) \div a) * a

RECURSIVE Align(_)
RECURSIVE Size(_)
RECURSIVE MaxAlign(_, _)
RECURSIVE EndOffset(_, _)

(* The largest alignment among the first n fields.                         *)
MaxAlign(fields, n) ==
    IF n = 0 THEN 1 ELSE Max(Align(fields[n]), MaxAlign(fields, n - 1))

(* The offset just past field n when the fields are laid out in order,     *)
(* each at the next multiple of its alignment.                             *)
EndOffset(fields, n) ==
    IF n = 0 THEN 0
    ELSE RoundUp(EndOffset(fields, n - 1), Align(fields[n])) + Size(fields[n])

(* reflect.Type.Align and reflect.Type.Size under the host layout.         *)
Align(t) ==
    IF t.kind = "Struct" THEN MaxAlign(t.fields, Len(t.fields))
    ELSE t.bits \div 8

Size(t) ==
    IF t.kind = "Struct"
    THEN RoundUp(EndOffset(t.fields, Len(t.fields)), Align(t))
    ELSE IF t.kind = "Array" THEN t.len * (t.bits \div 8)
    ELSE t.bits \div 8

TimeLayout ==
    Struct(<< HostLayout,
              Scalar("Int64", 64),          \* Seconds
              Scalar("Int64", 64) >>)       \* Nanos

(* Mutant: FileHeader without its explicit padding field.                  *)
FileHeaderWithoutPadding ==
    Struct(<< HostLayout,
              Scalar("Uint64", 64), Scalar("Uint64", 64), Scalar("Uint64", 64),
              Scalar("Uint32", 32), Scalar("Uint32", 32), Scalar("Uint32", 32),
              Scalar("Uint64", 64),
              Scalar("Int64", 64), Scalar("Int64", 64), Scalar("Int64", 64),
              TimeLayout, TimeLayout, TimeLayout,
              ArrayOf(3, "Int64", 64) >>)

FileHeaderLayout ==
    Struct(<< HostLayout,
              Scalar("Uint64", 64),         \* Device
              Scalar("Uint64", 64),         \* IndexNode
              Scalar("Uint64", 64),         \* HardLinks
              Scalar("Uint32", 32),         \* Permissions
              Scalar("Uint32", 32),         \* User
              Scalar("Uint32", 32),         \* Group
              Scalar("Int32", 32),          \* _
              Scalar("Uint64", 64),         \* Special
              Scalar("Int64", 64),          \* Size
              Scalar("Int64", 64),          \* BlockSize
              Scalar("Int64", 64),          \* BlockCount
              TimeLayout,                   \* AccessedAt
              TimeLayout,                   \* ModifiedAt
              TimeLayout,                   \* ModifiedMetadataAt
              ArrayOf(3, "Int64", 64) >>)   \* _

FileToPollLayout ==
    Struct(<< Scalar("Int32", 32),          \* File
              Scalar("Int16", 16),          \* Notify
              Scalar("Int16", 16) >>)       \* Result

(* The native structures as cgo presents them on linux/amd64.              *)
struct_timespec == Struct(<< Scalar("Int64", 64), Scalar("Int64", 64) >>)

struct_stat ==
    Struct(<< Scalar("Uint64", 64),         \* st_dev
              Scalar("Uint64", 64),         \* st_ino
              Scalar("Uint64", 64),         \* st_nlink
              Scalar("Uint32", 32),         \* st_mode
              Scalar("Uint32", 32),         \* st_uid
              Scalar("Uint32", 32),         \* st_gid
              Scalar("Int32", 32),          \* __pad0
              Scalar("Uint64", 64),         \* st_rdev
              Scalar("Int64", 64),          \* st_size
              Scalar("Int64", 64),          \* st_blksize
              Scalar("Int64", 64),          \* st_blocks
              struct_timespec,              \* st_atim
              struct_timespec,              \* st_mtim
              struct_timespec,              \* st_ctim
              ArrayOf(3, "Int64", 64) >>)   \* __glibc_reserved

struct_pollfd ==
    Struct(<< Scalar("Int32", 32),          \* fd
              Scalar("Int16", 16),          \* events
              Scalar("Int16", 16) >>)       \* revents

(* The fields of a struct that are not of size zero, in order.             *)
Sized(fields) == SelectSeq(fields, LAMBDA f : Size(f) # 0)

IntKinds == {"Int16", "Int32", "Int64", "Uint32", "Uint64"}

RECURSIVE assertTypes(_, _)
(* assertTypes: TRUE when the test passes.  Field i of atype that is not   *)
(* of size zero is compared with field j of btype, j counting the fields   *)
(* compared so far; a btype with too few fields fails the test.            *)
assertTypes(atype, btype) ==
    /\ Size(atype) = Size(btype)
    /\ Align(atype) = Align(btype)
    /\ atype.kind = btype.kind
    /\ atype.kind \in IntKinds => atype.bits = btype.bits
    /\ atype.kind = "Struct" =>
          LET a == Sized(atype.fields)
          IN /\ Len(a) <= Len(btype.fields)
             /\ \A j \in 1..Len(a) : assertTypes(a[j], btype.fields[j])

Layouts ==
    [Time       |-> [A |-> TimeLayout, B |-> struct_timespec],
     FileHeader |-> [A |-> FileHeaderLayout, B |-> struct_stat],
     FileToPoll |-> [A |-> FileToPollLayout, B |-> struct_pollfd]]

(* assertLayout[A, B]: the outcome of the test, with the size, the         *)
(* alignment and the sizes of the fields of A that the test compared.      *)
assertLayout(name) ==
    LET A == Layouts[name].A
        B == Layouts[name].B
    IN [ok |-> assertTypes(A, B), size |-> Size(A), align |-> Align(A),
        fields |-> [j \in 1..Len(Sized(A.fields)) |-> Size(Sized(A.fields)[j])],
        kinds |-> [j \in 1..Len(Sized(A.fields)) |-> Sized(A.fields)[j].kind]]

-----------------------------------------------------------------------------
(* Mapped memory.                                                          *)

MemoryAllowReads == 1
MemoryAllowWrites == 2

RECURSIVE BitAnd(_, _)
(* a & b on non-negative integers.                                         *)
BitAnd(a, b) ==
    IF a = 0 \/ b = 0 THEN 0
    ELSE (a % 2) * (b % 2) + 2 * BitAnd(a \div 2, b \div 2)

(* The bytes the kernel maps: byte i of the file is i.                     *)
FileBytes(length) == [i \in 1..length |-> i]

(* MapFileIntoMemory: syscall.Mmap refuses length <= 0 with EINVAL before  *)
(* the kernel is reached, returns a nil slice with the error when the      *)
(* kernel fails, and a slice of length bytes otherwise.  The value         *)
(* returned is mmap{prot, memory}.                                         *)
MapFileIntoMemory(addr, length, prot, mtype, flags, fd, offset, k) ==
    IF length <= 0
    THEN [Result(0, parse("MapError", Errno(22)), "MapError", Errno(22), k,
                 [check |-> prot, slice |-> <<>>])
            EXCEPT !.kcalls = 0, !.kerrno = 0]
    ELSE Result(0, parse("MapError", errnoErr(k.errno)), "MapError",
                errnoErr(k.errno), k,
                [check |-> prot,
                 slice |-> IF k.errno = 0 THEN FileBytes(length) ELSE <<>>])

MinOf(a, b) == IF a <= b THEN a ELSE b

(* copy(dst, src): the first min(len(dst), len(src)) bytes of src over     *)
(* the start of dst.                                                       *)
copy(dst, src) ==
    [i \in 1..Len(dst) |-> IF i <= MinOf(Len(dst), Len(src)) THEN src[i]
                           ELSE dst[i]]

(* s[off:], which panics unless 0 <= off <= len(s).                        *)
SliceFrom(s, off) == SubSeq(s, off + 1, Len(s))

InBounds(s, off) == 0 <= off /\ off <= Len(s)

MapRet(n, err, p, slice) ==
    [n |-> n, err |-> err, aborted |-> FALSE, p |-> p, slice |-> slice]

MapPanic(p, slice) ==
    [n |-> 0, err |-> Nil, aborted |-> TRUE, p |-> p, slice |-> slice]

(* Mutant: WriteAt tests the flag of the other direction.                  *)
WriteAtChecksReads(mm, p, off) ==
    IF BitAnd(mm.check, MemoryAllowReads) = 0
    THEN MapRet(0, parse("MapError", Errno(13)), p, mm.slice)
    ELSE IF ~InBounds(mm.slice, off) THEN MapPanic(p, mm.slice)
    ELSE MapRet(Len(p), Nil, p,
                SubSeq(mm.slice, 1, off)
                    \o copy(SliceFrom(mm.slice, off), p))

(* mmap.ReadAt / mmap.WriteAt: what the call returns, with the caller's    *)
(* buffer p and the region as the call leaves them.  syscall.EACCES is     *)
(* errno 13.                                                               *)
ReadAt(mm, p, off) ==
    IF BitAnd(mm.check, MemoryAllowReads) = 0
    THEN MapRet(0, parse("MapError", Errno(13)), p, mm.slice)
    ELSE IF ~InBounds(mm.slice, off) THEN MapPanic(p, mm.slice)
    ELSE MapRet(Len(p), Nil, copy(p, SliceFrom(mm.slice, off)), mm.slice)

WriteAt(mm, p, off) ==
    IF BitAnd(mm.check, MemoryAllowWrites) = 0
    THEN MapRet(0, parse("MapError", Errno(13)), p, mm.slice)
    ELSE IF ~InBounds(mm.slice, off) THEN MapPanic(p, mm.slice)
    ELSE MapRet(Len(p), Nil, p,
                SubSeq(mm.slice, 1, off)
                    \o copy(SliceFrom(mm.slice, off), p))

(* mmap.Len                                                                *)
MapLen(mm) == Len(mm.slice)

(* What munmap(2) on a mapped region may answer.                           *)
KMunmap == KOk({0}) \cup {x \in KFail : x.errno = 12}

(* syscall.Munmap(data): the syscall package keeps a table of the active   *)
(* mappings by address.  An empty slice, or one that is at no active       *)
(* mapping's address, is refused with EINVAL (22) without a kernel call;   *)
(* otherwise munmap(2) is issued and, when it succeeds, the entry is       *)
(* deleted.  active tells whether the table has a mapping at data's        *)
(* address.                                                                *)
Munmap(data, active, k) ==
    IF Len(data) = 0 \/ ~active
    THEN [err |-> Errno(22), kcalls |-> 0, active |-> active]
    ELSE [err |-> errnoErr(k.errno), kcalls |-> 1, active |-> k.errno # 0]

(* mmap.Close: no record is kept of an earlier Close.                      *)
MapClose(mm, active, k) == Munmap(mm.slice, active, k)

-----------------------------------------------------------------------------
(* File handle (file.go).                                                  *)

(* File.Read / File.Write: the facade's result for the handle's            *)
(* descriptor; int(n) of an int64 keeps the value on a 64-bit int.         *)
FileRead(f, p, k) == Read(f.Descriptor, p, k)

FileWrite(f, p, k) == Write(f.Descriptor, p, k)

FileSeek(f, offset, whence, k) == Seek(f.Descriptor, offset, whence, k)

(* Mutant: File.Stat refusing a closed handle by itself.                   *)
FileStatChecksClosed(f, K) ==
    IF f.Closed THEN Early(0, Errno(9), ZeroHeader)
    ELSE StatFile(f.Descriptor, K)

FileStat(f, K) == StatFile(f.Descriptor, K)

(* What File.MapIntoMemory returns: the mapping (NoVal for a nil           *)
(* MappedMemory) and the error, with the size the stat reported and the    *)
(* arguments of the map calls it issued, in order.                         *)
MapIntoRet(mapping, err, size, mapcalls) ==
    [mapping |-> mapping, err |-> err, size |-> size, mapcalls |-> mapcalls]

(* Mutant: File.MapIntoMemory going on to the map call after a failed      *)
(* stat.                                                                   *)
FileMapIntoMemoryIgnoresStat(f, mtype, prot, flags, K, k) ==
    LET head == FileStat(f, K)
        r == MapFileIntoMemory(0, head.val.Size, prot, mtype, flags,
                               f.Descriptor, 0, k)
    IN MapIntoRet(r.val, r.err, head.val.Size,
                  << [addr |-> 0, length |-> head.val.Size, offset |-> 0] >>)

(* File.MapIntoMemory: f.Stat(), then MapFileIntoMemory(nil,               *)
(* int(head.Size), prot, mtype, flags, f.Descriptor, 0).  K is the         *)
(* kernel's answer to the stat and k its answer to the map call.           *)
FileMapIntoMemory(f, mtype, prot, flags, K, k) ==
    LET head == FileStat(f, K) IN
    IF head.err # Nil
    THEN MapIntoRet(NoVal, head.err, head.val.Size, << >>)
    ELSE LET r == MapFileIntoMemory(0, head.val.Size, prot, mtype, flags,
                                    f.Descriptor, 0, k)
         IN MapIntoRet(r.val, r.err, head.val.Size,
                       << [addr |-> 0, length |-> head.val.Size,
                           offset |-> 0] >>)

(* Mutant: the flag is stored, and its old value is not looked at.         *)
StoreInsteadOfSwap(old) == FALSE

(* f.Closed.Swap(true): the value the flag held.                           *)
Swap(old) == old

NoRet == [kind |-> "none", op |-> "", ord |-> 0, no |-> 0, msg |-> ""]

(* What close(2) may fail with while the descriptor is open; the           *)
(* descriptor is released all the same.                                    *)
CloseErrnos == {4, 5, 28, 122}

KClose == IF fdOpen THEN KOk({0}) \cup {x \in KFail : x.errno \in CloseErrnos}
          ELSE {x \in KFail : x.errno = 9}

-----------------------------------------------------------------------------
(* Inputs.                                                                 *)

ByteVals == {0, 9}

Bufs == UNION {[1..n -> ByteVals] : n \in 0..MaxBuf}

Fd == 3

TheFile == [Descriptor |-> Fd]

Paths == {"./api_test.go", "./__does_not_exist__", "./link"}

Prots == {0, MemoryAllowReads, MemoryAllowWrites,
          MemoryAllowReads + MemoryAllowWrites}

FileLists ==
    UNION {[1..n -> {FileToPoll(Fd, HasReadAvailable, 0)}] : n \in 0..MaxFiles}

Durations == {0 - Millisecond, 0 - 1, 0, 1, Millisecond, 2 * Millisecond}

AllTags == UNION {{Field(T, i).tag : i \in 0..(NumField(T) - 1)} : T \in Tables}

AllVariants == UNION {{Variant(T, i) : i \in 0..(NumField(T) - 1)} : T \in Tables}

ErrorInputs ==
    {Nil} \cup {Errno(e) : e \in Errnos \cup {0}}
          \cup {Other(s) : s \in AllTags \cup {"unknown error"}}
          \cup AllVariants

Call(op, arg, r) == [op |-> op, arg |-> arg, r |-> r]

NoCall == Call("none", NoVal, Early(0, Nil, NoVal))

Offsets == (0 - 1)..(MaxLen + 1)

MCall(op, off, p0, slice0, r) ==
    [op |-> op, off |-> off, p0 |-> p0, slice0 |-> slice0, r |-> r]

NoMapCall == MCall("none", 0, <<>>, <<>>, NoVal)

Idle == last.op = "none"

-----------------------------------------------------------------------------
(* Initial state: no call made yet; the File handle is the one a           *)
(* successful Open returned; no region is mapped.                          *)

Init ==
    /\ last = NoCall
    /\ Closed = FALSE
    /\ fdOpen = TRUE
    /\ reopened = FALSE
    /\ kclose = <<>>
    /\ pc = [t \in Threads |-> "idle"]
    /\ ret = [t \in Threads |-> NoRet]
    /\ calls = [t \in Threads |-> 0]
    /\ fcopy = [made |-> FALSE, Closed |-> FALSE]
    /\ m = [live |-> FALSE, check |-> 0, slice |-> <<>>, active |-> FALSE,
            other |-> FALSE, closes |-> 0, kunmaps |-> 0]
    /\ mres = NoMapCall

-----------------------------------------------------------------------------
(* Facade and taxonomy calls (Spec).  One sequential caller: it makes a    *)
(* call, last holds what the call returned, and Return is the caller       *)
(* taking that result before its next call.                                *)


CallRead ==
    \E buf \in Bufs : \E k \in KOk(0..Len(buf)) \cup KFail :
        /\ Idle
        /\ last' = Call("Read", [buflen |-> Len(buf)], Read(Fd, buf, k))
        /\ UNCHANGED <<fileVars, mapVars>>

CallWrite ==
    \E buf \in Bufs : \E k \in KOk(0..Len(buf)) \cup KFail :
        /\ Idle
        /\ last' = Call("Write", [buflen |-> Len(buf)], Write(Fd, buf, k))
        /\ UNCHANGED <<fileVars, mapVars>>

CallFileRead ==
    \E buf \in Bufs : \E k \in KOk(0..Len(buf)) \cup KFail :
        /\ Idle
        /\ last' = Call("File.Read", [buflen |-> Len(buf)],
                        FileRead(TheFile, buf, k))
        /\ UNCHANGED <<fileVars, mapVars>>

CallFileWrite ==
    \E buf \in Bufs : \E k \in KOk(0..Len(buf)) \cup KFail :
        /\ Idle
        /\ last' = Call("File.Write", [buflen |-> Len(buf)],
                        FileWrite(TheFile, buf, k))
        /\ UNCHANGED <<fileVars, mapVars>>

(* Open with the flags named by the caller, against one of the two         *)
(* declarations of the constants.                                          *)
OpenWith(paths, decls, accesses, creations, statuses, outcomes) ==
    /\ Idle
    /\ \E path \in paths : \E decl \in decls : \E access \in accesses :
       \E creation \in creations : \E status \in statuses : \E k \in outcomes :
        /\ creation \subseteq DOMAIN CreationFlagsOf(decl)
        /\ status \subseteq DOMAIN StatusFlagsOf(decl)
        /\ last' = Call("Open",
                        [path |-> path, decl |-> decl, access |-> access,
                         creation |-> creation, status |-> status],
                        Open(path, FileAccessMode[access],
                             OrAll(CreationFlagsOf(decl), creation),
                             OrAll(StatusFlagsOf(decl), status), 0, k))
        /\ UNCHANGED <<fileVars, mapVars>>

(* Open as the package's test calls it: read-only, no flags.               *)
CallOpen ==
    OpenWith(Paths, {"part_000"}, {"FileAccessReadOnly"}, {{}}, {{}},
             KOk({Fd}) \cup KFail)

CallClose ==
    \E k \in KOk({0}) \cup KFail :
        /\ Idle
        /\ last' = Call("Close", NoVal, Close(Fd, k))
        /\ UNCHANGED <<fileVars, mapVars>>

CallStat ==
    \E path \in Paths : \E K \in KStatWorlds(path, Fd) :
        /\ Idle
        /\ last' = Call("Stat", [path |-> path], Stat(path, K))
        /\ UNCHANGED <<fileVars, mapVars>>

CallStatFile ==
    \E K \in KStatWorlds("./api_test.go", Fd) :
        /\ Idle
        /\ last' = Call("StatFile", NoVal, StatFile(Fd, K))
        /\ UNCHANGED <<fileVars, mapVars>>

CallStatLink ==
    \E path \in Paths : \E K \in KStatWorlds(path, Fd) :
        /\ Idle
        /\ last' = Call("StatLink", [path |-> path], StatLink(path, K))
        /\ UNCHANGED <<fileVars, mapVars>>

CallPoll ==
    \E files \in FileLists : \E timeout \in Durations : \E k \in KPoll(files) :
        /\ Idle
        /\ last' = Call("Poll", [nfiles |-> Len(files), timeout |-> timeout],
                        Poll(files, timeout, k))
        /\ UNCHANGED <<fileVars, mapVars>>

CallSeek ==
    \E off \in 0..MaxLen : \E origin \in SeekOrigins :
    \E k \in KOk(0..MaxLen) \cup KFail :
        /\ Idle
        /\ last' = Call("Seek", [offset |-> off, origin |-> origin],
                        Seek(Fd, off, SeekWhence(origin), k))
        /\ UNCHANGED <<fileVars, mapVars>>

CallMapFileIntoMemory ==
    \E length \in 0..MaxLen : \E prot \in Prots : \E k \in KOk({0}) \cup KFail :
        /\ Idle
        /\ last' = Call("MapFileIntoMemory", [length |-> length],
                        MapFileIntoMemory(0, length, prot, 2, 0, Fd, 0, k))
        /\ UNCHANGED <<fileVars, mapVars>>

(* File.MapIntoMemory on a file of any size up to MaxLen.                  *)
CallFileMapIntoMemory ==
    /\ Idle
    /\ \E size \in 0..MaxLen : \E prot \in Prots :
       \E K \in KStatWorlds("./api_test.go", Fd) : \E k \in KOk({0}) \cup KFail :
          LET Ks == IF K.fstat.errno = 0
                    THEN [K EXCEPT !.fstat.header.Size = size] ELSE K
          IN last' = Call("File.MapIntoMemory",
                          [size |-> size, prot |-> prot,
                           staterrno |-> K.fstat.errno, maperrno |-> k.errno],
                          FileMapIntoMemory(TheFile, 2, prot, 0, Ks, k))
    /\ UNCHANGED <<fileVars, mapVars>>

(* The layout test of internal/test.go on one of the ABI records.          *)
CallAssertLayout ==
    \E name \in DOMAIN Layouts :
        /\ Idle
        /\ last' = Call("assertLayout", [A |-> name], assertLayout(name))
        /\ UNCHANGED <<fileVars, mapVars>>

(* ErrMethods[T].parse applied directly.                                   *)
CallParse ==
    \E T \in Tables : \E err \in ErrorInputs :
        /\ Idle
        /\ last' = Call("parse", [T |-> T, err |-> err],
                        [out |-> parse(T, err)])
        /\ UNCHANGED <<fileVars, mapVars>>

(* ErrMethods[T].parse applied to an error and again to what it returned.  *)
CallParseTwice ==
    /\ Idle
    /\ \E T \in Tables : \E err \in ErrorInputs :
          last' = Call("parse twice", [T |-> T, err |-> err],
                       [once |-> parse(T, err),
                        twice |-> parse(T, parse(T, err))])
    /\ UNCHANGED <<fileVars, mapVars>>

(* ErrMethods[T].Types applied directly.                                   *)
CallTypes ==
    \E T \in Tables :
        /\ Idle
        /\ last' = Call("Types", [T |-> T], [types |-> Types(T)])
        /\ UNCHANGED <<fileVars, mapVars>>

Return ==
    /\ ~Idle
    /\ last' = NoCall
    /\ UNCHANGED <<fileVars, mapVars>>

Next ==
    \/ CallRead \/ CallWrite \/ CallFileRead \/ CallFileWrite
    \/ CallOpen \/ CallClose
    \/ CallStat \/ CallStatFile \/ CallStatLink
    \/ CallPoll \/ CallSeek \/ CallMapFileIntoMemory
    \/ CallFileMapIntoMemory
    \/ CallParse \/ CallParseTwice \/ CallTypes \/ CallAssertLayout
    \/ Return

Spec == Init /\ [][Next]_vars

-----------------------------------------------------------------------------
(* One File handle shared by the goroutines of Threads, each calling       *)
(* File.Close up to MaxCalls times (SpecFile).  A goroutine whose call     *)
(* panics makes no further call; the others go on, as when the panic is    *)
(* recovered.                                                              *)

(* File.Close up to the atomic swap; a call that finds the flag set        *)
(* returns nil at once.                                                    *)
CloseSwap(t) ==
    /\ pc[t] = "idle"
    /\ calls[t] < MaxCalls
    /\ calls' = [calls EXCEPT ![t] = @ + 1]
    /\ Closed' = TRUE
    /\ IF ~Swap(Closed)
       THEN /\ pc' = [pc EXCEPT ![t] = "closing"]
            /\ ret' = [ret EXCEPT ![t] = NoRet]
       ELSE /\ pc' = pc
            /\ ret' = [ret EXCEPT ![t] = Nil]
    /\ UNCHANGED <<fdOpen, reopened, kclose, fcopy, last, mapVars>>

(* Mutant: a failed kernel close clears the flag, so that a later Close    *)
(* tries again.                                                            *)
CloseKernelResets(t) ==
    /\ pc[t] = "closing"
    /\ \E k \in KClose :
         /\ kclose' = Append(kclose, [by |-> t, errno |-> k.errno])
         /\ fdOpen' = FALSE
         /\ reopened' = FALSE
         /\ Closed' = (k.errno = 0)
         /\ IF Close(Fd, k).aborted
            THEN /\ pc' = [pc EXCEPT ![t] = "panicked"]
                 /\ ret' = ret
            ELSE /\ pc' = [pc EXCEPT ![t] = "idle"]
                 /\ ret' = [ret EXCEPT ![t] = Close(Fd, k).err]
    /\ UNCHANGED <<calls, fcopy, last, mapVars>>

(* File.Close from f.Linux.Close(f.Descriptor) to its return.              *)
CloseKernel(t) ==
    /\ pc[t] = "closing"
    /\ \E k \in KClose :
         /\ kclose' = Append(kclose, [by |-> t, errno |-> k.errno])
         /\ fdOpen' = FALSE
         /\ reopened' = FALSE
         /\ IF Close(Fd, k).aborted
            THEN /\ pc' = [pc EXCEPT ![t] = "panicked"]
                 /\ ret' = ret
            ELSE /\ pc' = [pc EXCEPT ![t] = "idle"]
                 /\ ret' = [ret EXCEPT ![t] = Close(Fd, k).err]
    /\ UNCHANGED <<Closed, calls, fcopy, last, mapVars>>

(* The File handle as the goroutines see it.                               *)
Handle == [Descriptor |-> Fd, Closed |-> Closed]

(* What a kernel call on the handle's descriptor number may fail with      *)
(* while the number names an open file.                                    *)
HandleErrnos == {4, 5}

(* The kernel's answer to a call on the descriptor number: "bad file       *)
(* descriptor" when the number names no open file, else success with one   *)
(* of vals or a failure of the file it names.                              *)
KOnDescriptor(vals) ==
    IF fdOpen THEN KOk(vals) \cup {x \in KFail : x.errno \in HandleErrnos}
    ELSE {x \in KFail : x.errno = 9}

KFstatOnDescriptor ==
    IF fdOpen
    THEN {K \in KStatWorlds("./api_test.go", Fd) :
             K.fstat.errno \in {0} \cup HandleErrnos}
    ELSE {K \in KStatWorlds("./api_test.go", Fd) : K.fstat.errno = 9}

(* What a call through the handle is recorded with: whether a File.Close   *)
(* had completed when it was made, and whether the descriptor number had   *)
(* been given to another file since.                                       *)
HandleArg(buflen) ==
    [buflen |-> buflen, afterClose |-> kclose # <<>>, reused |-> reopened]

(* Read, Write, Seek and Stat through the handle, at any time.             *)
HandleRead ==
    /\ Idle
    /\ \E len \in 0..MaxBuf : \E k \in KOnDescriptor(0..len) :
          last' = Call("File.Read", HandleArg(len),
                       FileRead(Handle, [i \in 1..len |-> 0], k))
    /\ UNCHANGED <<fileVars, mapVars>>

HandleWrite ==
    /\ Idle
    /\ \E len \in 0..MaxBuf : \E k \in KOnDescriptor(0..len) :
          last' = Call("File.Write", HandleArg(len),
                       FileWrite(Handle, [i \in 1..len |-> 0], k))
    /\ UNCHANGED <<fileVars, mapVars>>

HandleSeek ==
    /\ Idle
    /\ \E k \in KOnDescriptor({0}) :
          last' = Call("File.Seek", HandleArg(0),
                       FileSeek(Handle, 0, SeekRelativeToStart, k))
    /\ UNCHANGED <<fileVars, mapVars>>

HandleStat ==
    /\ Idle
    /\ \E K \in KFstatOnDescriptor :
          last' = Call("File.Stat", HandleArg(0), FileStat(Handle, K))
    /\ UNCHANGED <<fileVars, mapVars>>

(* The process opens another file while the handle's descriptor number is  *)
(* free: the kernel hands out the lowest free number, which is that one.   *)
OpenOther ==
    /\ Idle
    /\ ~fdOpen
    /\ \E k \in KOk({Fd}) \cup {x \in KFail : x.errno = 24} :
          /\ last' = Call("Open",
                          [path |-> "./link", decl |-> "part_000",
                           access |-> "FileAccessReadOnly",
                           creation |-> {}, status |-> {}],
                          Open("./link", FileAccessMode.FileAccessReadOnly,
                               0, 0, 0, k))
          /\ fdOpen' = (k.errno = 0)
          /\ reopened' = (k.errno = 0)
    /\ UNCHANGED <<Closed, kclose, pc, ret, calls, fcopy, mapVars>>

NextFile ==
    \/ \E t \in Threads : CloseSwap(t) \/ CloseKernel(t)
    \/ HandleRead \/ HandleWrite \/ HandleSeek \/ HandleStat
    \/ OpenOther
    \/ Return

SpecFile == Init /\ [][NextFile]_vars

-----------------------------------------------------------------------------
(* The File value Open returned and one copy of it (SpecCopy).  File is a  *)
(* struct returned by value; a copy carries the same Descriptor and its    *)
(* own Closed flag, holding what the flag held when the copy was made.     *)

CopyFile ==
    /\ ~fcopy.made
    /\ fcopy' = [made |-> TRUE, Closed |-> Closed]
    /\ UNCHANGED <<Closed, fdOpen, reopened, kclose, pc, ret, calls, last,
                   mapVars>>

(* File.Close on the copy, up to the atomic swap on the copy's flag; the   *)
(* rest of the call is CloseKernel, on the shared Descriptor.              *)
CopyCloseSwap(t) ==
    /\ fcopy.made
    /\ pc[t] = "idle"
    /\ calls[t] < MaxCalls
    /\ calls' = [calls EXCEPT ![t] = @ + 1]
    /\ fcopy' = [fcopy EXCEPT !.Closed = TRUE]
    /\ IF ~Swap(fcopy.Closed)
       THEN /\ pc' = [pc EXCEPT ![t] = "closing"]
            /\ ret' = [ret EXCEPT ![t] = NoRet]
       ELSE /\ pc' = pc
            /\ ret' = [ret EXCEPT ![t] = Nil]
    /\ UNCHANGED <<Closed, fdOpen, reopened, kclose, last, mapVars>>

NextCopy ==
    \/ CopyFile
    \/ \E t \in Threads : CloseSwap(t) \/ CopyCloseSwap(t) \/ CloseKernel(t)

SpecCopy == Init /\ [][NextCopy]_vars

-----------------------------------------------------------------------------
(* One mapped-memory object and its caller (SpecMap).                      *)

MapIdle == mres.op = "none"

(* The object's region is mapped.  Callers touch the region only while it  *)
(* is: access after the unmap is undefined.                                *)
Mapped == m.live /\ m.active /\ ~m.other

(* MapFileIntoMemory; the caller keeps the object when the error is nil.   *)
MapCall ==
    \E length \in 0..MaxLen : \E prot \in Prots : \E k \in KOk({0}) \cup KFail :
        LET r == MapFileIntoMemory(0, length, prot, 2, 0, Fd, 0, k) IN
        /\ MapIdle
        /\ ~m.live
        /\ mres' = MCall("Map", 0, <<>>, <<>>, r)
        /\ m' = IF r.err = Nil
                THEN [m EXCEPT !.live = TRUE, !.check = r.val.check,
                               !.slice = r.val.slice, !.active = TRUE]
                ELSE m
        /\ UNCHANGED <<last, fileVars>>

ReadAtCall ==
    \E p \in Bufs : \E off \in Offsets :
        /\ MapIdle
        /\ Mapped
        /\ mres' = MCall("ReadAt", off, p, m.slice, ReadAt(m, p, off))
        /\ m' = [m EXCEPT !.slice = ReadAt(m, p, off).slice]
        /\ UNCHANGED <<last, fileVars>>

WriteAtCall ==
    \E p \in Bufs : \E off \in Offsets :
        /\ MapIdle
        /\ Mapped
        /\ mres' = MCall("WriteAt", off, p, m.slice, WriteAt(m, p, off))
        /\ m' = [m EXCEPT !.slice = WriteAt(m, p, off).slice]
        /\ UNCHANGED <<last, fileVars>>

LenCall ==
    /\ MapIdle
    /\ m.live
    /\ mres' = MCall("Len", 0, <<>>, m.slice, [n |-> MapLen(m)])
    /\ UNCHANGED <<m, last, fileVars>>

(* mmap.Close on the object or on a copy of it, up to MaxCalls times.      *)
MapCloseCall ==
    /\ MapIdle
    /\ m.live
    /\ m.closes < MaxCalls
    /\ \E k \in KMunmap :
          LET r == MapClose(m, m.active, k) IN
          /\ mres' = MCall("Close", 0, <<>>, m.slice,
                           [n |-> 0, err |-> r.err, aborted |-> FALSE,
                            p |-> <<>>, slice |-> m.slice])
          /\ m' = [m EXCEPT !.closes = @ + 1,
                            !.kunmaps = @ + r.kcalls,
                            !.active = r.active,
                            !.other = IF r.active THEN @ ELSE FALSE]
    /\ UNCHANGED <<last, fileVars>>

(* Once the region is unmapped the kernel may place a later mapping of     *)
(* the process at the same address, where the syscall package registers    *)
(* it.                                                                     *)
MapOtherAtSameAddress ==
    /\ MapIdle
    /\ m.live
    /\ ~m.active
    /\ m' = [m EXCEPT !.active = TRUE, !.other = TRUE]
    /\ UNCHANGED <<mres, last, fileVars>>

MapReturn ==
    /\ ~MapIdle
    /\ mres' = NoMapCall
    /\ UNCHANGED <<m, last, fileVars>>

NextMap ==
    \/ MapCall \/ ReadAtCall \/ WriteAtCall \/ LenCall
    \/ MapCloseCall \/ MapOtherAtSameAddress
    \/ MapReturn

SpecMap == Init /\ [][NextMap]_vars

-----------------------------------------------------------------------------
(* Open with every access mode and up to MaxFlags creation flags and       *)
(* MaxFlags status flags.                                                  *)

FlagSets(names) == {S \in SUBSET names : Cardinality(S) <= MaxFlags}

OpenFlags ==
    OpenWith({"./api_test.go"}, Declarations, DOMAIN FileAccessMode,
             FlagSets(DOMAIN FileCreationFlags \cup DOMAIN FileCreationFlags_file_go),
             FlagSets(DOMAIN FileStatusFlags \cup DOMAIN FileStatusFlags_file_go),
             KOk({Fd}) \cup {k \in KFail : k.errno = 22})

NextOpen == OpenFlags \/ Return

SpecOpen == Init /\ [][NextOpen]_vars

-----------------------------------------------------------------------------
(* Properties.                                                             *)

Closing == {t \in Threads : pc[t] = "closing"}

(* C1: over any interleaving of File.Close calls on one handle the kernel  *)
(* close of its descriptor is issued exactly once: before the first swap   *)
(* no close is issued or pending, and once the flag is set exactly one     *)
(* call, the one that won the swap, is about to issue it or has issued it; *)
(* every other call issues none.                                           *)
C1_ExactlyOneKernelClose ==
    /\ Len(kclose) <= 1
    /\ Cardinality(Closing) + Len(kclose) = (IF Closed THEN 1 ELSE 0)
    /\ \A t \in Closing : kclose = <<>>

C1_Witness ==
    /\ Len(kclose) = 1
    /\ Closing = {}
    /\ \A t \in Threads : calls[t] >= 1
    /\ \E t \in Threads : calls[t] = MaxCalls /\ kclose[1].by # t

(* C2: when the kernel close succeeds, the File.Close call that issued it  *)
(* returns nil, and so does every other completed Close call.              *)
C2_CloseReportsSuccess ==
    (Len(kclose) >= 1 /\ kclose[1].errno = 0) =>
        \A t \in Threads :
            /\ pc[t] # "panicked"
            /\ (pc[t] = "idle" /\ calls[t] > 0) => ret[t] = Nil

Tags(T) == {Field(T, i).tag : i \in 0..(NumField(T) - 1)}

(* out is a classification of raw through table T: nil for nil; else the   *)
(* variant of T whose declared message is raw's message, or raw itself     *)
(* when T declares no such message.                                        *)
Classifies(T, raw, out) ==
    IF raw = Nil THEN out = Nil
    ELSE \/ /\ out.kind = "variant"
            /\ out.op = T
            /\ out.ord \in 0..(NumField(T) - 1)
            /\ Field(T, out.ord).tag = ErrorOf(raw)
         \/ /\ out = raw
            /\ ErrorOf(raw) \notin Tags(T)

OwnTable(op) ==
    CASE op \in {"Read", "File.Read"} -> "ReadError"
      [] op \in {"Write", "File.Write"} -> "WriteError"
      [] op = "Open" -> "OpenError"
      [] op = "Close" -> "CloseError"
      [] op \in {"Stat", "StatFile", "StatLink"} -> "StatError"
      [] op = "Poll" -> "PollError"
      [] op = "Seek" -> "SeekError"
      [] op = "MapFileIntoMemory" -> "MapError"

FacadeOps == {"Read", "File.Read", "Write", "File.Write", "Open", "Close",
              "Stat", "StatFile", "StatLink", "Poll", "Seek",
              "MapFileIntoMemory"}

(* The error a facade call returned is nil, the kernel's errno itself, or  *)
(* a variant of the call's own table carrying the errno's message.         *)
ClassifiedByOwnTable ==
    \/ last.r.err = Nil /\ last.r.kerrno = 0
    \/ Classifies(OwnTable(last.op), Errno(last.r.kerrno), last.r.err)

(* C3: parse is total: nil for nil; for a non-nil error the variant of    *)
(* the same table whose declared message equals the error's message, or    *)
(* the error unchanged when no entry matches; never a variant of another   *)
(* table; and every facade call that reached the kernel and returned       *)
(* classified the kernel's error through its own operation's table.        *)
C3_ClassifyTotal ==
    /\ last.op = "parse" =>
           Classifies(last.arg.T, last.arg.err, last.r.out)
    /\ (last.op \in FacadeOps /\ last.r.kcalls = 1 /\ ~last.r.aborted) =>
           ClassifiedByOwnTable

C3_Witness ==
    /\ last.op = "parse"
    /\ last.arg.err.kind = "errno"
    /\ last.arg.err.no # 0
    /\ last.r.out = last.arg.err

(* C4: classifying a raw error whose message is the text declared at      *)
(* position i of the table yields the variant with ordinal i, and Error()  *)
(* of that variant is the declared text, the raw error's message.          *)
C4_OrdinalAndMessage ==
    (last.op = "parse" /\ last.arg.err.kind \in {"errno", "other"}) =>
        \A i \in 0..(NumField(last.arg.T) - 1) :
            Field(last.arg.T, i).tag = ErrorOf(last.arg.err) =>
                /\ last.r.out = Variant(last.arg.T, i)
                /\ ErrorOf(last.r.out) = Field(last.arg.T, i).tag
                /\ ErrorOf(last.r.out) = ErrorOf(last.arg.err)

C4_Witness ==
    /\ last.op = "parse"
    /\ last.arg.err.kind = "other"
    /\ last.r.out.kind = "variant"
    /\ last.r.out.ord > 0
    /\ ErrorOf(last.r.out) = last.arg.err.msg

(* C5: Poll with an empty list returns the Invalid ("invalid argument")    *)
(* variant of the poll table without a kernel call.                        *)
C5_EmptyPollIsInvalid ==
    (last.op = "Poll" /\ last.arg.nfiles = 0) =>
        /\ last.r.kcalls = 0
        /\ ~last.r.aborted
        /\ last.r.err = Variant("PollError", FieldIndex("PollError", "Invalid"))

ReadGranted == m.check % 2 = 1

WriteGranted == (m.check \div 2) % 2 = 1

Denied ==
    /\ ~mres.r.aborted
    /\ mres.r.n = 0
    /\ mres.r.err = Variant("MapError", FieldIndex("MapError", "AccessDenied"))
    /\ ErrorOf(mres.r.err) = ErrorOf(Errno(13))
    /\ mres.r.p = mres.p0
    /\ mres.r.slice = mres.slice0
    /\ m.slice = mres.slice0

(* C6: ReadAt on a mapping without read protection and WriteAt on one      *)
(* without write protection return count 0 and the AccessDenied variant    *)
(* of the map table, the classification of the kernel's permission-denied  *)
(* error, and leave the region and the caller's buffer unchanged; with     *)
(* the direction granted and offset 0 the call succeeds.                   *)
C6_ProtectionChecked ==
    /\ (mres.op = "ReadAt" /\ ~ReadGranted) => Denied
    /\ (mres.op = "WriteAt" /\ ~WriteGranted) => Denied
    /\ (mres.op = "ReadAt" /\ ReadGranted /\ mres.off = 0) =>
           ~mres.r.aborted /\ mres.r.err = Nil
    /\ (mres.op = "WriteAt" /\ WriteGranted /\ mres.off = 0) =>
           ~mres.r.aborted /\ mres.r.err = Nil

C6_Witness ==
    /\ mres.op = "WriteAt"
    /\ m.check = MemoryAllowReads
    /\ mres.off = 0
    /\ Len(mres.p0) > 0
    /\ Len(mres.slice0) > 0
    /\ mres.r.err # Nil

(* C7: Read, Write, Open, Stat, StatFile, StatLink, Poll with a non-empty  *)
(* list, Seek and MapFileIntoMemory return a nil error when the kernel     *)
(* call succeeds and a non-nil error when it fails.                        *)
C7_NilIffKernelSuccess ==
    (/\ last.op \in {"Read", "Write", "Open", "Stat", "StatFile", "StatLink",
                     "Poll", "Seek", "MapFileIntoMemory"}
     /\ last.r.kcalls = 1
     /\ ~last.r.aborted) =>
        (last.r.kerrno = 0 <=> last.r.err = Nil)

(* C8: the count Read, Write, File.Read and File.Write return is between   *)
(* 0 and len(buf) on every outcome, a failed kernel call included.         *)
C8_CountWithinBuffer ==
    (/\ last.op \in {"Read", "Write", "File.Read", "File.Write"}
     /\ ~last.r.aborted) =>
        (0 <= last.r.n /\ last.r.n <= last.arg.buflen)

(* C9: Stat, StatLink and StatFile return the DoesNotExist variant of the  *)
(* stat table, whose message is "no such file or directory", when the      *)
(* kernel reports that the file does not exist, and never hand back raw a  *)
(* kernel error whose message the stat table declares.                     *)
C9_StatDoesNotExist ==
    (last.op \in {"Stat", "StatFile", "StatLink"} /\ ~last.r.aborted) =>
        /\ last.r.kerrno = 2 =>
              /\ last.r.err = Variant("StatError",
                                      FieldIndex("StatError", "DoesNotExist"))
              /\ ErrorOf(last.r.err) = "no such file or directory"
        /\ (last.r.kerrno # 0 /\ ErrnoError(last.r.kerrno) \in Tags("StatError")) =>
              last.r.err.kind = "variant" /\ last.r.err.op = "StatError"

C9_Witness ==
    /\ last.op = "Stat"
    /\ last.arg.path = "./__does_not_exist__"
    /\ last.r.kerrno = 2
    /\ last.r.err.kind = "variant"

(* C10: Types() returns one variant per declared entry, the entry at       *)
(* position i carrying ordinal i, so the variants are pairwise distinct    *)
(* by ordinal, and Error() of each is that entry's declared message.       *)
C10_TypesOnePerEntry ==
    last.op = "Types" =>
        /\ Len(last.r.types) = Len(TypeFor(last.arg.T))
        /\ \A i \in 1..Len(last.r.types) :
              /\ last.r.types[i].kind = "variant"
              /\ last.r.types[i].op = last.arg.T
              /\ last.r.types[i].ord = i - 1
              /\ ErrorOf(last.r.types[i]) = TypeFor(last.arg.T)[i].tag
        /\ \A i, j \in 1..Len(last.r.types) :
              i # j => last.r.types[i].ord # last.r.types[j].ord

C10_Witness ==
    /\ last.op = "Types"
    /\ last.arg.T = "WriteError"
    /\ Len(last.r.types) = 12
    /\ last.r.types[12].ord = 11

(* C11: Poll with a non-empty list whose kernel call succeeds with at      *)
(* least one ready descriptor returns an index within the list, and the    *)
(* entry at that index is one of the ready ones: its Result holds an       *)
(* observed event.                                                         *)
C11_PollReturnsReadyIndex ==
    (/\ last.op = "Poll"
     /\ last.arg.nfiles > 0
     /\ last.r.kcalls = 1
     /\ last.r.kerrno = 0
     /\ Ready([i \in DOMAIN last.r.val.files |-> last.r.val.files[i].Result]) # {}) =>
        /\ 0 <= last.r.n
        /\ last.r.n < last.arg.nfiles
        /\ last.r.val.files[last.r.n + 1].Result # 0

(* C12: the timeout Poll hands to the kernel is the requested duration in  *)
(* whole milliseconds, and a negative duration reaches the kernel as a     *)
(* negative value; no non-negative duration becomes a longer wait or       *)
(* wait-forever.                                                           *)
C12_TimeoutInMilliseconds ==
    (last.op = "Poll" /\ last.r.kcalls = 1) =>
        IF last.arg.timeout < 0
        THEN last.r.val.timeout < 0
        ELSE last.r.val.timeout = last.arg.timeout \div Millisecond

(* C13: every seek origin reaches the kernel as the kernel's value for     *)
(* the origin the caller named, and the five origins are pairwise          *)
(* distinct.                                                               *)
C13_SeekOriginsMatchKernel ==
    last.op = "Seek" =>
        /\ last.r.val.whence = NativeWhence(last.arg.origin)
        /\ \A b \in SeekOrigins \ {last.arg.origin} :
               SeekWhence(b) # last.r.val.whence

(* How the kernel reads a flags word: the access mode is the two low bits  *)
(* and a flag is set when all its bits are.                                *)
DecodeAccess(word) == BitAnd(word, 3)

DecodeFlags(table, word) ==
    {f \in DOMAIN table : BitAnd(word, table[f]) = table[f]}

Mask(table) == OrAll(table, DOMAIN table)

CreationMask == [d \in Declarations |-> Mask(CreationFlagsOf(d))]

StatusMask == [d \in Declarations |-> Mask(StatusFlagsOf(d))]

(* C14: every creation flag, status flag and access mode constant equals   *)
(* the Linux constant the conformance test pairs it with, so an Open       *)
(* naming one of them reaches the kernel with that Linux constant.         *)
C14_FlagsEqualLinux ==
    (last.op = "Open" /\ Cardinality(last.arg.creation \cup last.arg.status) <= 1) =>
        last.r.val.flags =
            BitOr(NativeFlags[last.arg.access],
                  OrAll(NativeFlags, (last.arg.creation \cup last.arg.status)
                                         \cap DOMAIN NativeFlags))

(* C16 as stated: the flags word Open passes decodes back to exactly the   *)
(* access mode, the creation flag set and the status flag set the caller   *)
(* named.                                                                  *)
C16_FlagsDecodeExactly ==
    last.op = "Open" =>
        /\ DecodeAccess(last.r.val.flags) = FileAccessMode[last.arg.access]
        /\ DecodeFlags(CreationFlagsOf(last.arg.decl), last.r.val.flags)
               = last.arg.creation
        /\ DecodeFlags(StatusFlagsOf(last.arg.decl), last.r.val.flags)
               = last.arg.status

(* The flags of table whose bits all lie within word.                      *)
Implied(table, word) ==
    {f \in DOMAIN table : BitAnd(word, table[f]) = table[f]}

(* C16: the bits of the access mode, of the creation flags and of the      *)
(* status flags are pairwise disjoint, so the flags word Open passes       *)
(* decodes back to the same access mode and, per category, to the same     *)
(* bits; the flag set decoded in a category is the named set together      *)
(* with the flags whose bits lie within those of the named flags.          *)
C16_FlagsDecodePerCategory ==
    last.op = "Open" =>
        LET C == CreationFlagsOf(last.arg.decl)
            S == StatusFlagsOf(last.arg.decl)
            w == last.r.val.flags
            mc == CreationMask[last.arg.decl]
            ms == StatusMask[last.arg.decl]
            cbits == OrAll(C, last.arg.creation)
            sbits == OrAll(S, last.arg.status)
            dc == DecodeFlags(C, w)
            ds == DecodeFlags(S, w)
        IN /\ BitAnd(3, mc) = 0
           /\ BitAnd(3, ms) = 0
           /\ BitAnd(mc, ms) = 0
           /\ DecodeAccess(w) = FileAccessMode[last.arg.access]
           /\ BitAnd(w, mc) = cbits
           /\ BitAnd(w, ms) = sbits
           /\ dc = Implied(C, cbits)
           /\ ds = Implied(S, sbits)
           /\ last.arg.creation \subseteq dc
           /\ last.arg.status \subseteq ds

C16_Witness ==
    /\ last.op = "Open"
    /\ last.arg.decl = "part_000"
    /\ last.arg.access = "FileAccessReadWrite"
    /\ last.arg.creation = {"FileTemporaryInside"}
    /\ last.arg.status = {"FileSync"}
    /\ "FileSyncData" \in DecodeFlags(FileStatusFlags, last.r.val.flags)
    /\ "FileAssertDirectory" \in DecodeFlags(FileCreationFlags, last.r.val.flags)

(* C15: the ABI records pass the layout test against the native            *)
(* structures: Time is two 64-bit signed fields, 16 bytes, alignment 8;    *)
(* FileHeader is 144 bytes, alignment 8, with fields of 8, 8, 8, 4, 4, 4,  *)
(* 4, 8, 8, 8, 8 bytes, three Time records and three 64-bit words;         *)
(* FileToPoll is a 32-bit field and two 16-bit fields, 8 bytes,            *)
(* alignment 4.  Fields of size zero are skipped.                          *)
C15_LayoutMatchesNative ==
    last.op = "assertLayout" =>
        /\ last.r.ok
        /\ last.arg.A = "Time" =>
              /\ last.r.size = 16 /\ last.r.align = 8
              /\ last.r.fields = <<8, 8>>
              /\ last.r.kinds = <<"Int64", "Int64">>
        /\ last.arg.A = "FileHeader" =>
              /\ last.r.size = 144 /\ last.r.align = 8
              /\ last.r.fields = <<8, 8, 8, 4, 4, 4, 4, 8, 8, 8, 8, 16, 16, 16, 24>>
        /\ last.arg.A = "FileToPoll" =>
              /\ last.r.size = 8 /\ last.r.align = 4
              /\ last.r.fields = <<4, 2, 2>>

C15_Witness ==
    /\ last.op = "assertLayout"
    /\ last.arg.A = "FileHeader"
    /\ last.r.ok
    /\ last.r.size = 144
    /\ Len(FileHeaderLayout.fields) = Len(last.r.fields) + 1

(* C20: StatLink never follows a symbolic link at the end of the path and  *)
(* reports the link itself; Stat follows it and reports the link's         *)
(* target; StatFile reports the file its descriptor refers to.             *)
C20_StatLinkDoesNotFollow ==
    (last.op \in {"Stat", "StatFile", "StatLink"} /\ last.r.kerrno = 0) =>
        /\ last.op = "StatLink" =>
               last.r.val = Header(FileSystem[last.arg.path])
        /\ last.op = "Stat" =>
               /\ last.r.val.Type = "regular"
               /\ last.arg.path = "./link" =>
                      last.r.val = Header(FileSystem[FileSystem["./link"].Target])
               /\ last.arg.path # "./link" =>
                      last.r.val = Header(FileSystem[last.arg.path])
        /\ last.op = "StatFile" =>
               last.r.val = Header(FileSystem["./api_test.go"])

C20_Witness ==
    /\ last.op = "StatLink"
    /\ last.arg.path = "./link"
    /\ last.r.kerrno = 0
    /\ last.r.err = Nil
    /\ last.r.val.Type = "symlink"
    /\ last.r.val.IndexNode = 2

(* The calls that return or panic before the kernel is reached.            *)
BeforeKernel ==
    \/ last.op \in {"Read", "File.Read", "Write", "File.Write"}
          /\ last.arg.buflen = 0
    \/ last.op = "Poll" /\ last.arg.nfiles = 0
    \/ last.op = "MapFileIntoMemory" /\ last.arg.length <= 0

(* C18: a facade operation that reaches the kernel issues exactly one      *)
(* kernel call; when that call fails, "interrupted system call" and        *)
(* "resource temporarily unavailable" included, the call returns at once   *)
(* with the classification of that failure: no retry, no local recovery.   *)
C18_OneKernelCallNoRetry ==
    last.op \in FacadeOps =>
        /\ last.r.kcalls = (IF BeforeKernel THEN 0 ELSE 1)
        /\ (last.r.kcalls = 1 /\ last.r.kerrno # 0) =>
              /\ ~last.r.aborted
              /\ last.r.err # Nil
              /\ Classifies(OwnTable(last.op), Errno(last.r.kerrno), last.r.err)

C18_Witness ==
    /\ last.op = "Read"
    /\ last.arg.buflen > 0
    /\ last.r.kcalls = 1
    /\ last.r.kerrno = 4
    /\ last.r.err = Variant("ReadError", FieldIndex("ReadError", "Interrupted"))

HandleOps == {"File.Read", "File.Write", "File.Seek", "File.Stat"}

HandleTable(op) ==
    CASE op = "File.Read" -> "ReadError"
      [] op = "File.Write" -> "WriteError"
      [] op = "File.Seek" -> "SeekError"
      [] op = "File.Stat" -> "StatError"

BadFile(op) ==
    /\ last.r.kerrno = 9
    /\ last.r.err.kind = "variant"
    /\ last.r.err.op = HandleTable(op)
    /\ ErrorOf(last.r.err) = "bad file descriptor"

C19_UnmapRequestedOnce ==
    m.closes >= 1 => (m.closes = 1 /\ m.kunmaps <= 1)

(* C21: the handle goes from Open to Closed once and stays there.  The     *)
(* Closed flag is false until the first Close call, is set by that call    *)
(* before the kernel close is issued, and is never reset, a failed kernel  *)
(* close included: the kernel close is issued at most once, and a Close    *)
(* call that finds the flag set returns nil without a kernel call.         *)
C21_ClosedIsTerminal ==
    /\ [](/\ Closed <=> (\E t \in Threads : calls[t] > 0)
          /\ (Closing # {} \/ kclose # <<>>) => Closed
          /\ Len(kclose) <= 1)
    /\ [][/\ Closed => Closed'
          /\ \A t \in Threads :
                (Closed /\ calls'[t] = calls[t] + 1) =>
                    /\ ret'[t] = Nil
                    /\ pc'[t] = pc[t]
                    /\ kclose' = kclose]_vars

C21_Witness ==
    /\ Closed
    /\ Len(kclose) = 1
    /\ kclose[1].errno # 0
    /\ \A t \in Threads : calls[t] = MaxCalls /\ pc[t] = "idle" /\ ret[t] = Nil

(* C22: File.MapIntoMemory first stats the descriptor.  When the stat      *)
(* fails it returns a nil mapping with the stat's error and issues no map  *)
(* call; otherwise it issues exactly one map call, with a nil address,     *)
(* offset 0 and the size the stat reported as length, and the mapping a    *)
(* successful map call returns has that size as its Len().                 *)
C22_MapsWholeFile ==
    last.op = "File.MapIntoMemory" =>
        IF last.arg.staterrno # 0
        THEN /\ last.r.mapping = NoVal
             /\ last.r.mapcalls = << >>
             /\ last.r.err # Nil
             /\ Classifies("StatError", Errno(last.arg.staterrno), last.r.err)
        ELSE /\ last.r.mapcalls =
                    << [addr |-> 0, length |-> last.arg.size, offset |-> 0] >>
             /\ last.r.size = last.arg.size
             /\ last.r.err = Nil => MapLen(last.r.mapping) = last.arg.size

C22_Witness ==
    /\ last.op = "File.MapIntoMemory"
    /\ last.arg.staterrno = 0
    /\ last.arg.size = MaxLen
    /\ last.r.err = Nil
    /\ MapLen(last.r.mapping) = MaxLen
    /\ last.r.mapping.check = MemoryAllowReads

(* C23: whenever a File.Close call has returned nil, the kernel close of   *)
(* the handle's descriptor has already completed, also when the call ran   *)
(* concurrently with the call that issues the kernel close.                *)
C23_NilAfterKernelClose ==
    \A t \in Threads :
        (calls[t] > 0 /\ pc[t] = "idle" /\ ret[t] = Nil) => kclose # << >>

(* C24: the descriptor obtained from one Open is handed to the kernel      *)
(* close at most once over the whole execution, also when the File value   *)
(* is copied and Close is called on more than one copy.                    *)
C24_DescriptorClosedOnce ==
    Len(kclose) <= 1

(* C25: on a permitted mapping the count ReadAt and WriteAt return is the  *)
(* number of bytes copied between the buffer and the region,               *)
(* min(len(p), Len() - off): smaller than len(p) when off + len(p) exceeds *)
(* Len().                                                                  *)
C25_CountIsBytesCopied ==
    (/\ \/ mres.op = "ReadAt" /\ ReadGranted
        \/ mres.op = "WriteAt" /\ WriteGranted
     /\ ~mres.r.aborted) =>
        mres.r.n = MinOf(Len(mres.p0), Len(mres.slice0) - mres.off)

(* C26: ReadAt and WriteAt on a permitted mapping complete with a count    *)
(* and an error for every offset, a negative one and one beyond Len()      *)
(* included, and leave the region as long as it was.                       *)
C26_AnyOffsetCompletes ==
    (\/ mres.op = "ReadAt" /\ ReadGranted
     \/ mres.op = "WriteAt" /\ WriteGranted) =>
        /\ ~mres.r.aborted
        /\ Len(mres.r.slice) = Len(mres.slice0)

(* C27: the messages one table declares are pairwise distinct, so a        *)
(* message selects exactly one variant, and classification is idempotent:  *)
(* classifying a result again returns it unchanged, a variant of the table *)
(* keeps its ordinal, and an unmatched raw error stays the same raw error. *)
C27_ClassifyIdempotent ==
    last.op = "parse twice" =>
        LET T == last.arg.T
            err == last.arg.err
            Fields == 0..(NumField(T) - 1)
        IN /\ \A i, j \in Fields :
                 Field(T, i).tag = Field(T, j).tag => i = j
           /\ Cardinality({i \in Fields :
                              Field(T, i).tag = ErrorOf(err)}) <= 1
           /\ last.r.twice = last.r.once
           /\ (err.kind = "variant" /\ err.op = T) =>
                 /\ last.r.once.kind = "variant"
                 /\ last.r.once.op = T
                 /\ last.r.once.ord = err.ord
           /\ (err.kind \in {"errno", "other"} /\ last.r.once = err) =>
                 last.r.twice = err

C27_Witness ==
    /\ last.op = "parse twice"
    /\ last.arg.T = "ProtectMemoryError"
    /\ last.arg.err = Variant("ProtectMemoryError", 1)
    /\ last.r.once = last.arg.err
    /\ last.r.twice = last.arg.err

(* C28: Read and Write called with a zero-length buffer do not abort; the  *)
(* call completes with a count and an error like any other.                *)
C28_EmptyBufferCompletes ==
    (last.op \in {"Read", "Write"} /\ last.arg.buflen = 0) =>
        ~last.r.aborted

=============================================================================
